---- MODULE Spec2Model ----
(***************************************************************************)
(* Model of src/lib/request.ts: the Request class (header merge, query and *)
(* body dispatch, multipart assembly, response and error normalisation)    *)
(* together with its helpers isStream, getAttachmentOptions and            *)
(* streamToString.                                                         *)
(*                                                                         *)
(* JavaScript values are tagged records.  An object with a fixed universe  *)
(* of keys is a record whose fields are either a value or Absent (the key  *)
(* is not an own property).  A mapping whose insertion order matters (the  *)
(* argument of createFormData, of objectToURLSearchParams) is a sequence   *)
(* of entries [k, v] with distinct keys.                                   *)
(***************************************************************************)
EXTENDS Integers, Sequences, FiniteSets, TLC

VARIABLES
  ctorOptions, \* the options the constructor was given
  thisCfg,    \* the instance fields set by the constructor
  call,       \* per call: position of the async function and its objects
  fdIn,       \* argument handed to createFormData
  fdOut,      \* the append calls createFormData made on the container
  fdDone      \* createFormData has returned

vars == <<ctorOptions, thisCfg, call, fdIn, fdOut, fdDone>>

---------------------------------------------------------------------------
(* JavaScript values *)

Absent    == [t |-> "absent"]
Null      == [t |-> "null"]
Undefined == [t |-> "undefined"]
Str(s)    == [t |-> "str", v |-> s]
Num(n)    == [t |-> "num", v |-> n]
Bool(b)   == [t |-> "bool", v |-> b]
Arr(s)    == [t |-> "arr", v |-> s]

\* ToBoolean: false for null, undefined, '', 0, false and a missing property
Truthy(x) ==
  CASE x.t = "absent"    -> FALSE
    [] x.t = "null"      -> FALSE
    [] x.t = "undefined" -> FALSE
    [] x.t = "str"       -> x.v # ""
    [] x.t = "num"       -> x.v # 0
    [] x.t = "bool"      -> x.v
    [] OTHER             -> TRUE

\* an object as the attachment code sees it: pipe is Function or Absent
Function == [t |-> "function"]

Obj(id, pipe, data, filename, contentType, knownLength) ==
  [t |-> "obj", id |-> id, pipe |-> pipe, data |-> data, filename |-> filename,
   contentType |-> contentType, knownLength |-> knownLength]

StreamHandle(id) == Obj(id, Function, Absent, Absent, Absent, Absent)
Bytes(id)        == [t |-> "bytes", id |-> id]

\* line 12 (typeof null is 'object' too; null is never handed to it here)
isStream(attachment) ==
  /\ attachment.t = "obj"
  /\ attachment.pipe.t = "function"

NoFileOptions == [filename |-> Absent, contentType |-> Absent, knownLength |-> Absent]

\* lines 14-32 with the isStream test of line 19 left out
getAttachmentOptionsNoStreamTest(item) ==
  IF item.t # "obj" THEN NoFileOptions
  ELSE [filename    |-> IF Truthy(item.filename) THEN item.filename ELSE Str("file"),
        contentType |-> IF Truthy(item.contentType) THEN item.contentType ELSE Absent,
        knownLength |-> IF Truthy(item.knownLength) THEN item.knownLength ELSE Absent]

\* lines 14-32
getAttachmentOptions(item) ==
  IF item.t # "obj" \/ isStream(item) THEN NoFileOptions
  ELSE [filename    |-> IF Truthy(item.filename) THEN item.filename ELSE Str("file"),
        contentType |-> IF Truthy(item.contentType) THEN item.contentType ELSE Absent,
        knownLength |-> IF Truthy(item.knownLength) THEN item.knownLength ELSE Absent]

---------------------------------------------------------------------------
(* createFormData, lines 168-201.  The container is the sequence of the    *)
(* append calls made on it.                                                *)

Append2(name, value)          == [name |-> name, value |-> value, options |-> Absent]
Append3(name, value, options) == [name |-> name, value |-> value, options |-> options]

\* lines 177-179 and 182-184
AttachmentAppend(key, item) ==
  Append3(key, IF isStream(item) THEN item ELSE item.data, getAttachmentOptions(item))

\* lines 175-185
ReservedAppends(key, obj) ==
  IF obj.t = "arr"
  THEN [i \in 1..Len(obj.v) |-> AttachmentAppend(key, obj.v[i])]
  ELSE <<AttachmentAppend(key, obj)>>

\* lines 190-196 with the array joined into one field
FieldAppendsJoined(key, value) ==
  IF value.t \notin {"null", "undefined"} THEN <<Append2(key, value)>> ELSE <<>>

\* lines 190-196
FieldAppends(key, value) ==
  IF value.t = "arr"
  THEN [i \in 1..Len(value.v) |-> Append2(key, value.v[i])]
  ELSE IF value.t \notin {"null", "undefined"} THEN <<Append2(key, value)>> ELSE <<>>

\* the reducer, lines 171-198
ReduceStep(key, value) ==
  IF key \in {"attachment", "inline"}
  THEN ReservedAppends(key, value)
  ELSE FieldAppends(key, value)

RECURSIVE ReduceFrom(_, _)
ReduceFrom(entries, i) ==
  IF i > Len(entries) THEN <<>>
  ELSE ReduceStep(entries[i].k, entries[i].v) \o ReduceFrom(entries, i + 1)

\* line 170
KeepTruthy(e) == Truthy(e.v)

createFormData(data) == ReduceFrom(SelectSeq(data, KeepTruthy), 1)

---------------------------------------------------------------------------
(* Inputs of createFormData *)

\* keys of the mapping handed to createFormData
MaxEntries == 2

FieldKeys    == {"to", "tags"}
ReservedKeys == {"attachment", "inline"}

FalsyValues  == {Str(""), Num(0), Null, Undefined, Bool(FALSE)}
ScalarValues == {Str("a"), Num(5)}
ArrayValues  == {Arr(<<>>), Arr(<<Str("a"), Str("b")>>), Arr(<<Str("b"), Str("")>>)}
FieldValues  == FalsyValues \cup ScalarValues \cup ArrayValues

SpecObjects ==
  { Obj("o", Absent, d, f, ct, kl) :
      d \in {Bytes("buf"), StreamHandle("ds")},
      f \in {Absent, Str(""), Str("f.png")},
      ct \in {Absent, Str(""), Str("image/png")},
      kl \in {Absent, Num(0), Num(7)} }
ArraySpecs ==
  { StreamHandle("s"),
    Obj("o", Absent, Bytes("buf"), Absent, Str("image/png"), Absent),
    Obj("o", Absent, StreamHandle("ds"), Str("f.png"), Absent, Num(7)) }
SpecArrays ==
  {Arr(<<>>)} \cup {Arr(<<a>>) : a \in ArraySpecs}
              \cup {Arr(<<a, b>>) : a \in ArraySpecs, b \in ArraySpecs}
AttachmentValues == {Null, StreamHandle("s")} \cup SpecObjects \cup SpecArrays
InlineValues     == {Undefined, StreamHandle("s")} \cup ArraySpecs
                      \cup {Arr(<<a>>) : a \in ArraySpecs}

ValuesOf(k) ==
  CASE k = "attachment" -> AttachmentValues
    [] k = "inline"     -> InlineValues
    [] OTHER            -> FieldValues

Entry(k, v) == [k |-> k, v |-> v]

RECURSIVE MappingsUpTo(_)
\* every mapping with at most n keys, as its entries in insertion order
MappingsUpTo(n) ==
  IF n = 0 THEN {<<>>}
  ELSE LET shorter == MappingsUpTo(n - 1)
       IN shorter \cup
          { Append(m, Entry(k, v)) :
              <<m, k, v>> \in
                { <<m, k, v>> \in shorter \X (FieldKeys \cup ReservedKeys)
                                         \X (FieldValues \cup AttachmentValues \cup InlineValues) :
                    /\ Len(m) = n - 1
                    /\ \A i \in 1..Len(m) : m[i].k # k
                    /\ v \in ValuesOf(k) } }

FormInputs == MappingsUpTo(MaxEntries)

CreateFormData ==
  /\ ~fdDone
  /\ fdOut' = createFormData(fdIn)
  /\ fdDone' = TRUE
  /\ UNCHANGED <<ctorOptions, thisCfg, call, fdIn>>

---------------------------------------------------------------------------
(* Byte strings, Btoa (line 74) and Buffer.concat(..).toString('utf8')     *)
(* (line 39).  A string is the sequence of its code points, a Buffer the   *)
(* sequence of its bytes.                                                  *)

Pad == 64

RECURSIVE Btoa(_)
\* base64 of a byte string: the sequence of the 6-bit digits, Pad for '='
Btoa(b) ==
  IF Len(b) = 0 THEN <<>>
  ELSE IF Len(b) = 1 THEN <<b[1] \div 4, (b[1] % 4) * 16, Pad, Pad>>
  ELSE IF Len(b) = 2
    THEN <<b[1] \div 4, (b[1] % 4) * 16 + b[2] \div 16, (b[2] % 16) * 4, Pad>>
  ELSE <<b[1] \div 4, (b[1] % 4) * 16 + b[2] \div 16,
         (b[2] % 16) * 4 + b[3] \div 64, b[3] % 64>>
       \o Btoa(SubSeq(b, 4, Len(b)))

Colon == 58

\* line 74: Btoa(`${this.username}:${this.key}`), and line 76
BasicAuth(username, key) ==
  [t |-> "basic", cred |-> Btoa(username \o <<Colon>> \o key)]

Replacement == 65533

RECURSIVE Utf8Decode(_)
\* toString('utf8') over the bytes the model uses: 0x00-0x7F one byte, a
\* lead byte 0xC2-0xDF with one continuation byte 0x80-0xBF, anything else
\* U+FFFD
Utf8Decode(b) ==
  IF Len(b) = 0 THEN <<>>
  ELSE IF b[1] < 128 THEN <<b[1]>> \o Utf8Decode(Tail(b))
  ELSE IF /\ b[1] \in 194..223
          /\ Len(b) >= 2
          /\ b[2] \in 128..191
    THEN <<(b[1] - 192) * 64 + (b[2] - 128)>> \o Utf8Decode(SubSeq(b, 3, Len(b)))
  ELSE <<Replacement>> \o Utf8Decode(Tail(b))

RECURSIVE BufferConcat(_)
\* Buffer.concat(chunks)
BufferConcat(chunks) ==
  IF Len(chunks) = 0 THEN <<>> ELSE Head(chunks) \o BufferConcat(Tail(chunks))

RECURSIVE DecodeEach(_)
\* every chunk decoded on its own, the texts joined
DecodeEach(chunks) ==
  IF Len(chunks) = 0 THEN <<>>
  ELSE Utf8Decode(Head(chunks)) \o DecodeEach(Tail(chunks))

\* line 39: the value the 'end' listener resolves with
EndValue(chunks) == Utf8Decode(BufferConcat(chunks))

\* line 37
ChunkPush(chunks, chunk) == Append(chunks, chunk)

---------------------------------------------------------------------------
(* Headers and options *)

HeaderNames == {"Authorization", "Content-Type", "X-Tag"}
NoHeaders   == [n \in HeaderNames |-> Absent]
HdrObj(m)   == [t |-> "hdrs", m |-> m]

QueryKeys   == {"a", "b"}
QueryObj(m) == [t |-> "query", m |-> m]

\* Object.getOwnPropertyNames(q).length, line 90
OwnPropertyCount(q) == Cardinality({k \in QueryKeys : q.m[k].t # "absent"})

EmptyOptions ==
  [t |-> "obj", headers |-> Absent, query |-> Absent, body |-> Absent, timeout |-> Absent]

\* { ...o }: the own properties of o, none for undefined
Spread(o) == IF o.t = "obj" THEN o ELSE EmptyOptions

SpreadHeaders(h) == IF h.t = "hdrs" THEN h.m ELSE NoHeaders

\* { ...a, ...b } with the operands exchanged
AssignOverReversed(a, b) ==
  [n \in HeaderNames |-> IF a[n].t # "absent" THEN a[n] ELSE b[n]]

\* { ...a, ...b } on header mappings: a later key wins
AssignOver(a, b) ==
  [n \in HeaderNames |-> IF b[n].t # "absent" THEN b[n] ELSE a[n]]

\* lines 51-58
constructor(options) ==
  [username |-> options.username,
   key      |-> options.key,
   url      |-> options.url,
   timeout  |-> options.timeout,
   headers  |-> IF Truthy(options.headers) THEN options.headers.m ELSE NoHeaders]

\* line 73 with options bound to the caller's object
OptionsShared(inputOptions) == [own |-> FALSE, o |-> Spread(inputOptions)]

\* line 73: options is a new object
OptionsCopy(inputOptions) == [own |-> TRUE, o |-> Spread(inputOptions)]

\* lines 75-79 written as Object.assign(this.headers, ...)
HeadersAssigned(auth, thisHeaders, callHeaders) ==
  [own |-> FALSE,
   m   |-> AssignOver(AssignOver([NoHeaders EXCEPT !["Authorization"] = auth], thisHeaders),
                      SpreadHeaders(callHeaders))]

\* lines 75-79: headers is a new object
HeadersMerged(auth, thisHeaders, callHeaders) ==
  [own |-> TRUE,
   m   |-> AssignOver(AssignOver([NoHeaders EXCEPT !["Authorization"] = auth], thisHeaders),
                      SpreadHeaders(callHeaders))]

\* lines 83-86 without the delete
KeepContentType(headers) == headers

\* lines 83-86
DropEmptyContentType(headers) ==
  IF ~Truthy(headers["Content-Type"])
  THEN [headers EXCEPT !["Content-Type"] = Absent]
  ELSE headers

\* line 90 testing the query for truthiness only
HasQueryTruthy(options) == Truthy(options.query)

\* line 90
HasQuery(options) ==
  /\ Truthy(options.query)
  /\ options.query.t = "query"
  /\ OwnPropertyCount(options.query) > 0

\* lines 88-93: params, with the key searchParams it may gain
Params(options) ==
  IF HasQuery(options)
  THEN [query |-> Absent, searchParams |-> options.query,
        body |-> options.body, timeout |-> options.timeout]
  ELSE [query |-> options.query, searchParams |-> Absent,
        body |-> options.body, timeout |-> options.timeout]

\* method.toLocaleUpperCase(), line 98
ToUpper(method) ==
  CASE method = "get"     -> "GET"
    [] method = "head"    -> "HEAD"
    [] method = "options" -> "OPTIONS"
    [] method = "post"    -> "POST"
    [] method = "put"     -> "PUT"
    [] method = "patch"   -> "PATCH"
    [] method = "delete"  -> "DELETE"

\* lines 95-104: the arguments of ky; ...params comes last and wins
KyArguments(this, method, url, headers, params) ==
  [url             |-> <<this.url, url>>,
   method          |-> ToUpper(method),
   headers         |-> headers,
   throwHttpErrors |-> FALSE,
   timeout         |-> IF params.timeout.t # "absent" THEN params.timeout ELSE this.timeout,
   query           |-> params.query,
   searchParams    |-> params.searchParams,
   body            |-> params.body]

\* lines 72-104, up to the await: the transport call, and what has become
\* of the two objects the function was given
requestSync(this, method, url, inputOptions) ==
  LET opt      == OptionsCopy(inputOptions)
      hdr      == HeadersMerged(BasicAuth(this.username, this.key), this.headers,
                                opt.o.headers)
      options  == [opt.o EXCEPT !.headers = Absent]
      headers  == DropEmptyContentType(hdr.m)
  IN [ky          |-> KyArguments(this, method, url, headers, Params(options)),
      inputAfter  |-> IF opt.own \/ inputOptions.t # "obj" THEN inputOptions
                      ELSE [inputOptions EXCEPT !.headers = Absent],
      thisHeaders |-> IF hdr.own THEN this.headers ELSE headers]

\* line 125: { query, ...options }
QueryOptions(query, options) ==
  LET o == Spread(options)
  IN [o EXCEPT !.query = IF o.query.t # "absent" THEN o.query ELSE query]

UrlEncoded == Str("application/x-www-form-urlencoded")

\* lines 129-133: { headers: {...}, body: data, ...options }
CommandOptions(data, options) ==
  LET o == Spread(options)
  IN [o EXCEPT
        !.headers = IF o.headers.t # "absent" THEN o.headers
                    ELSE HdrObj([NoHeaders EXCEPT !["Content-Type"] = UrlEncoded]),
        !.body    = IF o.body.t # "absent" THEN o.body ELSE data]

\* lines 60-70
objectToURLSearchParams(data) ==
  IF ~Truthy(data) THEN Null
  ELSE [t |-> "urlsearchparams", pairs |-> data.v]

\* lines 153-155 and 161-163
MultiParams ==
  [EmptyOptions EXCEPT !.headers = HdrObj([NoHeaders EXCEPT !["Content-Type"] = Null])]

FormDataBody(data) == [t |-> "formdata", fields |-> createFormData(data)]

---------------------------------------------------------------------------
(* The asynchronous part of request, lines 95-122, and streamToString,     *)
(* lines 34-41.  A call waits at the ky call ("transport"), at             *)
(* response.json() ("json") or at streamToString ("drain").                *)

IdleCall ==
  [pc |-> "idle", op |-> "none", args |-> Absent, callerOptions |-> Absent,
   inputOptions |-> Absent, ky |-> Absent, kyCalls |-> 0, response |-> Absent,
   listening |-> FALSE, chunks |-> <<>>, drain |-> "none",
   emitted |-> <<>>, ended |-> FALSE, errored |-> FALSE,
   result |-> [kind |-> "pending"], settles |-> 0]

Resolved(v) == [kind |-> "resolved", value |-> v]
Rejected(e) == [kind |-> "rejected", error |-> e]

\* lines 111-115
APIError(status, statusText, message) ==
  [type |-> "APIError", status |-> status, statusText |-> statusText,
   body |-> [message |-> message]]

TransportError == [type |-> "TransportError"]
StreamError    == [type |-> "StreamError"]
SyntaxError    == [type |-> "SyntaxError"]

\* the promise request returned is settled and the function is over
Settle(cr, outcome) ==
  [cr EXCEPT !.pc = "done", !.result = outcome, !.settles = @ + 1]

\* lines 95-104 with the ky call repeated after a failure
OnKyRejectedRetry(cr) == [cr EXCEPT !.kyCalls = @ + 1]

\* lines 95-104: ky rejects, nothing catches it
OnKyRejected(cr) == Settle(cr, Rejected(TransportError))

\* lines 106-109: what the function awaits once ky has resolved
OnKyResolved(cr, response) ==
  LET got == [cr EXCEPT !.response = response]
  IN IF response.t = "undefined"
       THEN Settle(got, Rejected(APIError(Undefined, Undefined, Undefined)))
     ELSE IF ~response.ok /\ Truthy(response.body) /\ isStream(response.body)
       THEN [got EXCEPT !.pc = "drain", !.listening = TRUE, !.drain = "pending"]
     ELSE [got EXCEPT !.pc = "json"]

\* lines 109-121: response.json() has settled
OnJson(cr) ==
  LET r == cr.response
  IN IF ~r.json.ok THEN Settle(cr, Rejected(SyntaxError))
     ELSE IF r.ok
       THEN Settle(cr, Resolved([body |-> r.json.v, status |-> r.status]))
     ELSE Settle(cr, Rejected(APIError(r.status, r.statusText, r.json.v)))

\* line 37
OnData(cr, chunk) == [cr EXCEPT !.chunks = ChunkPush(@, chunk)]

\* line 39 and lines 108-115 with every chunk decoded on its own
OnEndDecodeEach(cr) ==
  IF cr.drain # "pending" THEN cr
  ELSE Settle([cr EXCEPT !.drain = "resolved"],
              Rejected(APIError(cr.response.status, cr.response.statusText,
                                DecodeEach(cr.chunks))))

\* line 39, then lines 108-115: a promise settles once
OnEnd(cr) ==
  IF cr.drain # "pending" THEN cr
  ELSE Settle([cr EXCEPT !.drain = "resolved"],
              Rejected(APIError(cr.response.status, cr.response.statusText,
                                EndValue(cr.chunks))))

\* line 38, then line 108: the rejection leaves request as it is
OnStreamError(cr) ==
  IF cr.drain # "pending" THEN cr
  ELSE Settle([cr EXCEPT !.drain = "rejected"], Rejected(StreamError))

---------------------------------------------------------------------------
(* Actions.  P is the record of the sets the inputs are drawn from.        *)

Args(method, url, query, data, options) ==
  [method |-> method, url |-> url, query |-> query, data |-> data, options |-> options]

Start(c, op, args, callerOptions, inputOptions, sync) ==
  /\ call[c].pc = "idle"
  /\ call' = [call EXCEPT ![c] =
                [@ EXCEPT !.pc = "transport", !.op = op, !.args = args,
                          !.callerOptions = callerOptions,
                          !.inputOptions = inputOptions,
                          !.ky = sync.ky, !.kyCalls = @ + 1]]
  /\ thisCfg' = [thisCfg EXCEPT !.headers = sync.thisHeaders]
  /\ UNCHANGED <<ctorOptions, fdIn, fdOut, fdDone>>

\* lines 72-104
request(c, m, u, o) ==
  LET sync == requestSync(thisCfg, m, u, o)
  IN Start(c, "request", Args(m, u, Absent, Absent, o), sync.inputAfter, o, sync)

\* lines 124-126
query(c, m, u, q, o) ==
  LET given == QueryOptions(q, o)
  IN Start(c, m, Args(m, u, q, Absent, o), o, given, requestSync(thisCfg, m, u, given))

\* lines 128-134; op is the public operation that called it
command(c, op, m, u, d, body, o) ==
  LET given == CommandOptions(body, o)
  IN Start(c, op, Args(m, u, Absent, d, o), o, given, requestSync(thisCfg, m, u, given))

\* lines 136-138
get(c, u, q, o) == query(c, "get", u, q, o)
\* lines 140-142
head(c, u, q, o) == query(c, "head", u, q, o)
\* lines 144-146
options(c, u, q, o) == query(c, "options", u, q, o)
\* lines 148-150
post(c, u, d, o) == command(c, "post", "post", u, d, objectToURLSearchParams(d), o)
\* lines 203-205
put(c, u, d, o) == command(c, "put", "put", u, d, objectToURLSearchParams(d), o)
\* lines 207-209
patch(c, u, d, o) == command(c, "patch", "patch", u, d, objectToURLSearchParams(d), o)
\* lines 211-213
delete(c, u, d, o) == command(c, "delete", "delete", u, d, objectToURLSearchParams(d), o)
\* lines 152-158
postMulti(c, u, d) == command(c, "postMulti", "post", u, d, FormDataBody(d), MultiParams)
\* lines 160-166
putMulti(c, u, d) == command(c, "putMulti", "put", u, d, FormDataBody(d), MultiParams)

Step(c, cr) ==
  /\ call' = [call EXCEPT ![c] = cr]
  /\ UNCHANGED <<ctorOptions, thisCfg, fdIn, fdOut, fdDone>>

\* the transport settles the promise of line 95
KyResolve(c, response) ==
  /\ call[c].pc = "transport"
  /\ Step(c, OnKyResolved(call[c], response))

KyReject(c) ==
  /\ call[c].pc = "transport"
  /\ Step(c, OnKyRejected(call[c]))

\* response.json() settles
JsonSettle(c) ==
  /\ call[c].pc = "json"
  /\ Step(c, OnJson(call[c]))

\* the body emits 'data', 'end', 'error'
StreamData(c, chunk, maxChunks) ==
  /\ call[c].listening
  /\ ~call[c].ended /\ ~call[c].errored
  /\ Len(call[c].emitted) < maxChunks
  /\ Step(c, [OnData(call[c], chunk) EXCEPT !.emitted = Append(@, chunk)])

StreamEnd(c) ==
  /\ call[c].listening
  /\ ~call[c].ended
  /\ Step(c, [OnEnd(call[c]) EXCEPT !.ended = TRUE])

StreamFail(c) ==
  /\ call[c].listening
  /\ ~call[c].errored
  /\ Step(c, [OnStreamError(call[c]) EXCEPT !.errored = TRUE])

\* no call is in progress under this id
Idle(c) == call[c].pc = "idle"

NextP(P) ==
  \E c \in P.calls :
    \/ Idle(c) /\ \E m \in P.methods, u \in P.urls, o \in P.requestOptions : request(c, m, u, o)
    \/ Idle(c) /\ \E u \in P.urls, q \in P.queries, o \in P.queryOptions : get(c, u, q, o)
    \/ Idle(c) /\ \E u \in P.urls, q \in P.queries, o \in P.queryOptions : head(c, u, q, o)
    \/ Idle(c) /\ \E u \in P.urls, q \in P.queries, o \in P.queryOptions : options(c, u, q, o)
    \/ Idle(c) /\ \E u \in P.urls, d \in P.data, o \in P.commandOptions : post(c, u, d, o)
    \/ Idle(c) /\ \E u \in P.urls, d \in P.fewData, o \in P.fewOptions : put(c, u, d, o)
    \/ Idle(c) /\ \E u \in P.urls, d \in P.fewData, o \in P.fewOptions : patch(c, u, d, o)
    \/ Idle(c) /\ \E u \in P.urls, d \in P.fewData, o \in P.fewOptions : delete(c, u, d, o)
    \/ Idle(c) /\ \E u \in P.urls, d \in P.formData : postMulti(c, u, d)
    \/ Idle(c) /\ \E u \in P.urls, d \in P.formData : putMulti(c, u, d)
    \/ \E r \in P.responses : KyResolve(c, r)
    \/ KyReject(c)
    \/ JsonSettle(c)
    \/ \E k \in P.chunks : StreamData(c, k, P.maxChunks)
    \/ StreamEnd(c)
    \/ StreamFail(c)

InitP(P) ==
  /\ ctorOptions \in P.ctor
  /\ thisCfg = constructor(ctorOptions)
  /\ call = [c \in P.calls |-> IdleCall]
  /\ fdIn = <<>>
  /\ fdOut = <<>>
  /\ fdDone = FALSE

---------------------------------------------------------------------------
(* Inputs *)

\* calls in flight on one instance
MaxCalls       == 2
\* 'data' events of one body where the responses are explored in full
MaxChunks      == 2
\* 'data' events of one body elsewhere
FewChunks      == 1

Map(entries) == [t |-> "map", v |-> entries]
OptionsObj(h, q, b, tm) ==
  [t |-> "obj", headers |-> h, query |-> q, body |-> b, timeout |-> tm]
RawBody == [t |-> "bytes", id |-> "raw"]

\* username and key as bytes: a/k, a/k1, api/k (3, 4 and 5 bytes to encode)
Credentials == {<<<<97>>, <<107>>>>, <<<<97>>, <<107, 49>>>>, <<<<97, 112, 105>>, <<107>>>>}
OneCredential == {<<<<97>>, <<107>>>>}

InstHeaderMaps ==
  { [n \in HeaderNames |->
       CASE n = "Authorization" -> a [] n = "Content-Type" -> ct [] OTHER -> x] :
      a  \in {Absent, Str("Bearer inst")},
      ct \in {Absent, Str("text/plain")},
      x  \in {Absent, Str("inst")} }

InstHeaders ==
  {Absent, HdrObj([NoHeaders EXCEPT !["Content-Type"] = Null])}
    \cup {HdrObj(m) : m \in InstHeaderMaps}

CallHeaderMaps ==
  { [n \in HeaderNames |->
       CASE n = "Authorization" -> a [] n = "Content-Type" -> ct [] OTHER -> x] :
      a  \in {Absent, Str("Bearer call")},
      ct \in {Absent, Null, Str(""), Str("application/json")},
      x  \in {Absent, Str("call")} }

CallHeaders     == {Absent} \cup {HdrObj(m) : m \in CallHeaderMaps}
FewCallHeaders  ==
  {Absent, HdrObj(NoHeaders),
   HdrObj([NoHeaders EXCEPT !["X-Tag"] = Str("call")]),
   HdrObj([NoHeaders EXCEPT !["Content-Type"] = Str("application/json")])}

QueryMaps ==
  { [k \in QueryKeys |-> IF k = "a" THEN a ELSE b] :
      a \in {Absent, Str("1")}, b \in {Absent, Str("2")} }
QueryValues == {Absent, Undefined, Null} \cup {QueryObj(m) : m \in QueryMaps}
QueryArgs   == {Undefined, QueryObj([k \in QueryKeys |-> Absent]),
                QueryObj([k \in QueryKeys |-> IF k = "a" THEN Str("1") ELSE Absent])}

DataArgs ==
  {Undefined, Null, Map(<<>>), Map(<<Entry("to", Str("x")), Entry("from", Str("y"))>>)}

MultiArgs ==
  { <<>>,
    <<Entry("to", Str("x")), Entry("tags", Arr(<<Str("a"), Str("b")>>))>>,
    <<Entry("attachment", StreamHandle("s")), Entry("text", Str(""))>> }

CtorOptions(credentials, headers) ==
  { [username |-> uk[1], key |-> uk[2], url |-> Str("https://api.example"),
     timeout |-> Num(5000), headers |-> h] :
      uk \in credentials, h \in headers }

JsonValues == {[t |-> "json", message |-> Str("bad")], [t |-> "json", message |-> Str("worse")]}
Parsed(v)  == [ok |-> TRUE, v |-> v]
Unparsable == [ok |-> FALSE]

Response(ok, status, statusText, body, json) ==
  [t |-> "response", ok |-> ok, status |-> status, statusText |-> statusText,
   body |-> body, json |-> json]

StatusLines == {<<TRUE, 200, "OK">>, <<FALSE, 404, "Not Found">>, <<FALSE, 500, "Server Error">>}

PlainBody == Obj("body", Absent, Absent, Absent, Absent, Absent)

Responses ==
  {Undefined}
  \cup { Response(l[1], l[2], l[3], b, j) :
           l \in StatusLines, b \in {Null, PlainBody},
           j \in {Parsed(v) : v \in JsonValues} \cup {Unparsable} }
  \cup { Response(l[1], l[2], l[3], StreamHandle("body"), j) :
           l \in StatusLines, j \in {Parsed([t |-> "json", message |-> Str("bad")]), Unparsable} }

\* 'a', and the two bytes of U+00E9 together and apart
Chunks == {<<97>>, <<98>>, <<195, 169>>, <<195>>, <<169>>, <<97, 195>>, <<169, 98>>}

BuildProfile ==
  [calls          |-> {1},
   ctor           |-> CtorOptions(Credentials, InstHeaders),
   methods        |-> {"get"},
   urls           |-> {"/v3/messages"},
   requestOptions |-> {Undefined} \cup
                      { OptionsObj(h, q, Absent, tm) :
                          h \in CallHeaders, q \in QueryValues, tm \in {Absent, Num(9)} },
   queries        |-> QueryArgs,
   queryOptions   |-> {Undefined} \cup
                      { OptionsObj(h, q, Absent, Absent) :
                          h \in FewCallHeaders,
                          q \in {Absent, QueryObj([k \in QueryKeys |-> Absent]),
                                 QueryObj([k \in QueryKeys |-> IF k = "b" THEN Str("2") ELSE Absent])} },
   data           |-> DataArgs,
   commandOptions |-> {Undefined} \cup
                      { OptionsObj(h, Absent, b, Absent) :
                          h \in CallHeaders, b \in {Absent, RawBody} },
   fewData        |-> {Undefined, Map(<<Entry("to", Str("x"))>>)},
   fewOptions     |-> {Undefined} \cup {OptionsObj(h, Absent, Absent, Absent) : h \in FewCallHeaders},
   formData       |-> MultiArgs,
   responses      |-> { Response(TRUE, 200, "OK", StreamHandle("body"), Parsed([t |-> "json", message |-> Str("bad")])),
                        Response(FALSE, 404, "Not Found", StreamHandle("body"), Unparsable) },
   chunks         |-> {<<97>>},
   maxChunks      |-> FewChunks]

RespProfile ==
  [calls          |-> {1},
   ctor           |-> CtorOptions(OneCredential, {Absent}),
   methods        |-> {"get", "post"},
   urls           |-> {"/v3/messages"},
   requestOptions |-> {Undefined},
   queries        |-> {Undefined},
   queryOptions   |-> {Undefined},
   data           |-> {Undefined},
   commandOptions |-> {Undefined},
   fewData        |-> {Undefined},
   fewOptions     |-> {Undefined},
   formData       |-> {<<>>},
   responses      |-> Responses,
   chunks         |-> Chunks,
   maxChunks      |-> MaxChunks]

\* several calls on one instance: one operation of each kind, each with
\* headers of its own
ConcProfile ==
  [calls          |-> 1..MaxCalls,
   ctor           |-> CtorOptions(OneCredential,
                                  {HdrObj([NoHeaders EXCEPT !["X-Tag"] = Str("inst")])}),
   methods        |-> {"get"},
   urls           |-> {"/v3/messages"},
   requestOptions |-> {OptionsObj(HdrObj([NoHeaders EXCEPT !["X-Tag"] = Str("call")]),
                                  Absent, Absent, Absent)},
   queries        |-> {QueryObj([k \in QueryKeys |-> IF k = "a" THEN Str("1") ELSE Absent])},
   queryOptions   |-> {Undefined},
   data           |-> {Map(<<Entry("to", Str("x"))>>)},
   commandOptions |-> {OptionsObj(HdrObj([NoHeaders EXCEPT !["Authorization"] = Str("Bearer call")]),
                                  Absent, Absent, Absent)},
   formData       |-> {<<Entry("to", Str("x"))>>},
   responses      |-> { Response(TRUE, 200, "OK", Null, Parsed([t |-> "json", message |-> Str("bad")])),
                        Response(FALSE, 404, "Not Found", StreamHandle("body"), Unparsable) },
   chunks         |-> {<<97>>},
   maxChunks      |-> FewChunks]

\* request itself and one operation through each of query, command and the
\* multipart path
NextC(P) ==
  \E c \in P.calls :
    \/ Idle(c) /\ \E m \in P.methods, u \in P.urls, o \in P.requestOptions : request(c, m, u, o)
    \/ Idle(c) /\ \E u \in P.urls, q \in P.queries, o \in P.queryOptions : get(c, u, q, o)
    \/ Idle(c) /\ \E u \in P.urls, d \in P.data, o \in P.commandOptions : post(c, u, d, o)
    \/ Idle(c) /\ \E u \in P.urls, d \in P.formData : postMulti(c, u, d)
    \/ \E r \in P.responses : KyResolve(c, r)
    \/ KyReject(c)
    \/ JsonSettle(c)
    \/ \E k \in P.chunks : StreamData(c, k, P.maxChunks)
    \/ StreamEnd(c)
    \/ StreamFail(c)

---------------------------------------------------------------------------
(* Specifications *)

InitBuild == InitP(BuildProfile)
NextBuild == NextP(BuildProfile)
SpecBuild == InitBuild /\ [][NextBuild]_vars

InitResp == InitP(RespProfile)
NextResp == NextP(RespProfile)
SpecResp == InitResp /\ [][NextResp]_vars

Init == InitP(ConcProfile)
Next == NextC(ConcProfile)
Spec == Init /\ [][Next]_vars

InitForm ==
  /\ ctorOptions \in CtorOptions(OneCredential, {Absent})
  /\ thisCfg = constructor(ctorOptions)
  /\ call = [c \in {1} |-> IdleCall]
  /\ fdIn \in FormInputs
  /\ fdOut = <<>>
  /\ fdDone = FALSE
NextForm == CreateFormData
SpecForm == InitForm /\ [][NextForm]_vars

---------------------------------------------------------------------------
(* createFormData: the fields of the keys other than attachment/inline     *)

\* the append calls made under the name k, in the order they were made
FieldsNamed(k) ==
  LET Named(f) == f.name = k
  IN SelectSeq(fdOut, Named)

ValuesNamed(k) ==
  LET sel == FieldsNamed(k)
  IN [i \in 1..Len(sel) |-> sel[i].value]

IsFalsy(v) ==
  \/ v.t \in {"null", "undefined"}
  \/ v = Str("")
  \/ v = Num(0)
  \/ v = Bool(FALSE)

KeyIndex(k) == CHOOSE i \in 1..Len(fdIn) : fdIn[i].k = k

\* C5: for every input mapping, a key other than attachment/inline whose
\* value is falsy yields no field, one whose value is an array yields one
\* field per element in array order, any other yields exactly one field
\* carrying the value; fields come in the insertion order of their keys.
C5_PlainFields ==
  fdDone =>
    /\ \A i \in 1..Len(fdIn) :
         fdIn[i].k \notin ReservedKeys =>
           ValuesNamed(fdIn[i].k) =
             IF IsFalsy(fdIn[i].v) THEN <<>>
             ELSE IF fdIn[i].v.t = "arr" THEN fdIn[i].v.v
             ELSE <<fdIn[i].v>>
    /\ \A i \in 1..Len(fdOut) :
         /\ \E j \in 1..Len(fdIn) : fdIn[j].k = fdOut[i].name
         /\ fdOut[i].name \notin ReservedKeys => fdOut[i].options = Absent
    /\ \A i, j \in 1..Len(fdOut) :
         i < j => KeyIndex(fdOut[i].name) <= KeyIndex(fdOut[j].name)

\* an array of two elements ahead of a dropped falsy key
C5_Witness ==
  /\ fdDone
  /\ Len(fdIn) = 2
  /\ fdIn[1] = Entry("tags", Arr(<<Str("a"), Str("b")>>))
  /\ fdIn[2] = Entry("to", Str(""))
  /\ fdOut = <<Append2("tags", Str("a")), Append2("tags", Str("b"))>>

\* a scalar ahead of an attachment
C5_WitnessOrder ==
  /\ fdDone
  /\ Len(fdOut) = 2
  /\ fdOut[1].name = "to"
  /\ fdOut[2].name = "attachment"

---------------------------------------------------------------------------
(* createFormData: attachment and inline *)

HasPipe(spec) == spec.t = "obj" /\ spec.pipe = Function

Provided(v) == v.t # "absent" /\ ~IsFalsy(v)

\* the specs given under the key of entry i
SpecsOf(i) ==
  IF IsFalsy(fdIn[i].v) THEN <<>>
  ELSE IF fdIn[i].v.t = "arr" THEN fdIn[i].v.v
  ELSE <<fdIn[i].v>>

\* C6: every attachment spec under attachment or inline yields exactly one
\* field under that key, in order. A spec with a callable pipe is the
\* field's data itself and gets no filename, contentType or knownLength;
\* any other spec contributes spec.data, its filename or else 'file', and
\* contentType and knownLength only when given and non-empty.
C6_AttachmentFields ==
  fdDone =>
    \A i \in 1..Len(fdIn) :
      fdIn[i].k \in ReservedKeys =>
        LET specs == SpecsOf(i)
            sel   == FieldsNamed(fdIn[i].k)
        IN /\ Len(sel) = Len(specs)
           /\ \A n \in 1..Len(specs) :
                IF HasPipe(specs[n])
                THEN /\ sel[n].value = specs[n]
                     /\ sel[n].options = NoFileOptions
                ELSE /\ sel[n].value = specs[n].data
                     /\ sel[n].options.filename =
                          IF Provided(specs[n].filename) THEN specs[n].filename
                          ELSE Str("file")
                     /\ sel[n].options.contentType =
                          IF Provided(specs[n].contentType) THEN specs[n].contentType
                          ELSE Absent
                     /\ sel[n].options.knownLength =
                          IF Provided(specs[n].knownLength) THEN specs[n].knownLength
                          ELSE Absent

\* a stream and an object without a filename in one attachment array
C6_Witness ==
  /\ fdDone
  /\ \E i \in 1..Len(fdIn) :
       /\ fdIn[i].k = "attachment"
       /\ fdIn[i].v = Arr(<<StreamHandle("s"),
                            Obj("o", Absent, Bytes("buf"), Absent, Str("image/png"), Absent)>>)
  /\ Len(FieldsNamed("attachment")) = 2
  /\ FieldsNamed("attachment")[1].value = StreamHandle("s")
  /\ FieldsNamed("attachment")[1].options.filename = Absent
  /\ FieldsNamed("attachment")[2].options.filename = Str("file")
  /\ FieldsNamed("attachment")[2].options.contentType = Str("image/png")

---------------------------------------------------------------------------
(* The transport call: headers, query, body *)

CallIds == DOMAIN call

Started(c) == call[c].pc # "idle"

Defines(h, n) == h.t = "hdrs" /\ h.m[n].t # "absent"

\* the headers of the options request was called with
GivenHeaders(c) ==
  IF call[c].inputOptions.t = "obj" THEN call[c].inputOptions.headers ELSE Absent

\* the instance default headers the constructor was given
DefaultHeaders == ctorOptions.headers

RECURSIVE Atob(_)
\* the bytes a base64 digit sequence stands for
Atob(d) ==
  IF Len(d) < 4 THEN <<>>
  ELSE IF d[3] = Pad THEN <<d[1] * 4 + d[2] \div 16>>
  ELSE IF d[4] = Pad
    THEN <<d[1] * 4 + d[2] \div 16, (d[2] % 16) * 16 + d[3] \div 4>>
  ELSE <<d[1] * 4 + d[2] \div 16, (d[2] % 16) * 16 + d[3] \div 4, (d[3] % 4) * 64 + d[4]>>
       \o Atob(SubSeq(d, 5, Len(d)))

IsBasicOf(v, username, key) ==
  /\ v.t = "basic"
  /\ Atob(v.cred) = username \o <<Colon>> \o key

\* call-level over instance default; Absent when neither defines n
Preferred(c, n) ==
  IF Defines(GivenHeaders(c), n) THEN GivenHeaders(c).m[n]
  ELSE IF Defines(DefaultHeaders, n) THEN DefaultHeaders.m[n]
  ELSE Absent

SentAsPreferred(c, n) ==
  IF Preferred(c, n).t # "absent"
  THEN call[c].ky.headers[n] = Preferred(c, n)
  ELSE IF n = "Authorization"
    THEN IsBasicOf(call[c].ky.headers[n], ctorOptions.username, ctorOptions.key)
  ELSE call[c].ky.headers[n] = Absent

\* C3 as claimed: for every header name the transport receives the
\* call-level value if defined, else the instance default if defined, else
\* the computed value.
C3_AsClaimed ==
  \A c \in CallIds : Started(c) => \A n \in HeaderNames : SentAsPreferred(c, n)

\* C3 amended: the same precedence for every header name, except that a
\* Content-Type whose value by that precedence is null or empty is not sent
\* at all.
C3_Precedence ==
  \A c \in CallIds :
    Started(c) =>
      \A n \in HeaderNames :
        IF n = "Content-Type" /\ IsFalsy(Preferred(c, n))
        THEN call[c].ky.headers[n] = Absent
        ELSE SentAsPreferred(c, n)

\* a call-level Authorization over an instance one, and a computed one
C3_Witness ==
  \E c \in CallIds :
    /\ Started(c)
    /\ Defines(GivenHeaders(c), "Authorization")
    /\ Defines(DefaultHeaders, "Authorization")
    /\ call[c].ky.headers["Authorization"] = Str("Bearer call")
    /\ call[c].ky.headers["X-Tag"] = Str("inst")

C3_WitnessBasic ==
  \E c \in CallIds :
    /\ Started(c)
    /\ ctorOptions.key = <<107, 49>>
    /\ call[c].ky.headers["Authorization"].t = "basic"
    /\ call[c].ky.headers["Content-Type"] = Absent
    /\ Defines(GivenHeaders(c), "Content-Type")

NonEmptyQuery(q) == q.t = "query" /\ \E k \in QueryKeys : q.m[k].t # "absent"

GivenQuery(c) ==
  IF call[c].inputOptions.t = "obj" THEN call[c].inputOptions.query ELSE Absent

\* C4: a query mapping with at least one key reaches the transport as
\* searchParams and leaves no query key behind; an absent query or a
\* mapping with no key gives the transport no searchParams. For
\* get/head/options the query is the query argument unless the options
\* carry one.
C4_QueryMoved ==
  \A c \in CallIds :
    Started(c) =>
      /\ IF NonEmptyQuery(GivenQuery(c))
         THEN /\ call[c].ky.searchParams = GivenQuery(c)
              /\ call[c].ky.query = Absent
         ELSE call[c].ky.searchParams = Absent
      /\ ( /\ call[c].op \in {"get", "head", "options"}
           /\ (call[c].args.options.t = "obj" => call[c].args.options.query.t = "absent") )
         => IF NonEmptyQuery(call[c].args.query)
            THEN call[c].ky.searchParams = call[c].args.query
            ELSE call[c].ky.searchParams = Absent

C4_Witness ==
  \E c \in CallIds :
    /\ call[c].op = "get"
    /\ NonEmptyQuery(call[c].args.query)
    /\ call[c].ky.searchParams = call[c].args.query

C4_WitnessEmpty ==
  \E c \in CallIds :
    /\ call[c].op = "get"
    /\ call[c].args.query = QueryObj([k \in QueryKeys |-> Absent])
    /\ call[c].args.options = Undefined
    /\ call[c].ky.searchParams = Absent

\* the caller's options name no Content-Type header
NoCallerContentType(c) ==
  \/ call[c].args.options.t # "obj"
  \/ ~Defines(call[c].args.options.headers, "Content-Type")

\* C8 as claimed: every post/put/patch/delete whose caller supplies no
\* Content-Type carries Content-Type application/x-www-form-urlencoded.
C8_AsClaimed ==
  \A c \in CallIds :
    ( /\ call[c].op \in {"post", "put", "patch", "delete"}
      /\ NoCallerContentType(c) )
    => call[c].ky.headers["Content-Type"] = UrlEncoded

\* C9: postMulti and putMulti hand the transport no Content-Type key,
\* whatever the instance default headers hold, and the body is the
\* container createFormData built from the data.
C9_MultiNoContentType ==
  \A c \in CallIds :
    call[c].op \in {"postMulti", "putMulti"} =>
      /\ call[c].ky.headers["Content-Type"] = Absent
      /\ call[c].ky.body.t = "formdata"
      /\ call[c].ky.body.fields = createFormData(call[c].args.data)

C9_Witness ==
  \E c \in CallIds :
    /\ call[c].op = "putMulti"
    /\ Defines(DefaultHeaders, "Content-Type")
    /\ DefaultHeaders.m["Content-Type"] = Str("text/plain")
    /\ call[c].ky.headers["Content-Type"] = Absent
    /\ Len(call[c].ky.body.fields) = 3

---------------------------------------------------------------------------
(* Responses and errors *)

Done(c) == call[c].pc = "done"

NotOk(c) == call[c].response.t = "response" /\ ~call[c].response.ok

StreamBody(c) ==
  /\ call[c].response.t = "response"
  /\ call[c].response.body.t = "obj"
  /\ call[c].response.body.pipe = Function

IsAPIErrorOf(c) ==
  /\ call[c].result.kind = "rejected"
  /\ call[c].result.error.type = "APIError"
  /\ call[c].result.error.status = call[c].response.status
  /\ call[c].result.error.statusText = call[c].response.statusText

\* C1 as claimed: a call whose response has ok = false never resolves, and
\* once settled it has rejected with the normalized error carrying that
\* response's status and statusText, whatever the body stream or the JSON
\* parse did.
C1_AsClaimed ==
  \A c \in CallIds :
    (NotOk(c) /\ Done(c)) => IsAPIErrorOf(c)

RECURSIVE Flatten(_)
Flatten(seqs) ==
  IF Len(seqs) = 0 THEN <<>> ELSE seqs[1] \o Flatten(SubSeq(seqs, 2, Len(seqs)))

RECURSIVE Utf8Encode(_)
\* the UTF-8 bytes of a text of code points below U+0800
Utf8Encode(text) ==
  IF Len(text) = 0 THEN <<>>
  ELSE LET first == IF text[1] < 128 THEN <<text[1]>>
                      ELSE <<192 + (text[1] \div 64), 128 + (text[1] % 64)>>
       IN first \o Utf8Encode(SubSeq(text, 2, Len(text)))

WellFormed(text) == \A i \in 1..Len(text) : text[i] # Replacement

Message(c) == call[c].result.error.body.message

\* C2: on a non-ok response with a stream body the normalized error is
\* raised only after 'end', and its message is the text of all emitted
\* chunks joined in emission order (its UTF-8 bytes are exactly the emitted
\* bytes when those are well-formed); with any other body the message is
\* the whole parsed JSON value.
C2_Message ==
  \A c \in CallIds :
    ( /\ Done(c) /\ NotOk(c)
      /\ call[c].result.kind = "rejected"
      /\ call[c].result.error.type = "APIError" )
    => IF StreamBody(c)
       THEN /\ call[c].ended
            /\ Message(c) = Utf8Decode(Flatten(call[c].emitted))
            /\ WellFormed(Message(c)) => Utf8Encode(Message(c)) = Flatten(call[c].emitted)
       ELSE /\ call[c].response.json.ok
            /\ Message(c) = call[c].response.json.v

\* the two bytes of one character arrive in different chunks
C2_Witness ==
  \E c \in CallIds :
    /\ Done(c) /\ NotOk(c) /\ StreamBody(c)
    /\ call[c].emitted = <<<<97, 195>>, <<169, 98>>>>
    /\ call[c].result.kind = "rejected"
    /\ call[c].result.error.type = "APIError"
    /\ Message(c) = <<97, 233, 98>>

C2_WitnessJson ==
  \E c \in CallIds :
    /\ Done(c) /\ NotOk(c) /\ ~StreamBody(c)
    /\ call[c].result.kind = "rejected"
    /\ call[c].result.error.type = "APIError"
    /\ Message(c) = [t |-> "json", message |-> Str("bad")]

\* C10: an operation makes one transport call and no more, and settles
\* exactly once: it is settled if and only if it is over, a transport
\* failure, a stream 'error' or a parse failure ends it in that one
\* rejection, and ok = true with a parseable body in {status, body}.
C10_SettlesOnce ==
  \A c \in CallIds :
    /\ call[c].kyCalls <= 1
    /\ Started(c) => call[c].kyCalls = 1
    /\ call[c].settles <= 1
    /\ Done(c) <=> call[c].settles = 1
    /\ Done(c) <=> call[c].result.kind # "pending"
    /\ (Done(c) /\ call[c].response.t = "absent")
         => call[c].result = Rejected(TransportError)
    /\ (Done(c) /\ call[c].response.t = "response" /\ call[c].response.ok)
         => IF call[c].response.json.ok
            THEN call[c].result =
                   Resolved([body |-> call[c].response.json.v,
                             status |-> call[c].response.status])
            ELSE call[c].result.kind = "rejected"
    /\ (Done(c) /\ NotOk(c)) => call[c].result.kind = "rejected"

\* 'end' follows 'error' on a body whose call has already rejected
C10_Witness ==
  \E c \in CallIds :
    /\ Done(c)
    /\ call[c].errored /\ call[c].ended
    /\ call[c].result = Rejected(StreamError)
    /\ call[c].settles = 1

C10_WitnessRejected ==
  \E c \in CallIds :
    /\ Done(c)
    /\ call[c].result = Rejected(TransportError)
    /\ call[c].kyCalls = 1

---------------------------------------------------------------------------
(* Calls in flight together *)

\* the headers a call hands to request: its own options', or the ones
\* command and the multipart operations put in their place
OwnHeaders(c) ==
  LET o  == call[c].args.options
      oh == IF o.t = "obj" THEN o.headers ELSE Absent
  IN CASE call[c].op \in {"postMulti", "putMulti"} ->
            HdrObj([NoHeaders EXCEPT !["Content-Type"] = Null])
       [] call[c].op \in {"post", "put", "patch", "delete"} /\ oh.t = "absent" ->
            HdrObj([NoHeaders EXCEPT !["Content-Type"] = UrlEncoded])
       [] OTHER -> oh

OwnHeader(c, n) ==
  LET v == IF Defines(OwnHeaders(c), n) THEN OwnHeaders(c).m[n]
           ELSE IF Defines(DefaultHeaders, n) THEN DefaultHeaders.m[n]
           ELSE Absent
  IN IF n = "Content-Type" /\ IsFalsy(v) THEN Absent ELSE v

\* the query a call asks for: its options' if they carry one, else the
\* query argument of get/head/options
OwnQuery(c) ==
  LET o == call[c].args.options
  IN IF o.t = "obj" /\ o.query.t # "absent" THEN o.query ELSE call[c].args.query

\* C7: with several calls in flight on one instance, under every
\* interleaving, each transport call carries the headers, query and body of
\* its own arguments and of the instance configuration, each call settles
\* with the status and body or message of its own response, and neither
\* the instance configuration nor a caller's options object is changed.
C7_NoCrossTalk ==
  /\ thisCfg = constructor(ctorOptions)
  /\ \A c \in CallIds :
       Started(c) =>
         /\ call[c].callerOptions = call[c].args.options
         /\ \A n \in HeaderNames :
              IF OwnHeader(c, n).t = "absent" /\ n = "Authorization"
              THEN IsBasicOf(call[c].ky.headers[n], ctorOptions.username, ctorOptions.key)
              ELSE call[c].ky.headers[n] = OwnHeader(c, n)
         /\ call[c].ky.searchParams =
              IF NonEmptyQuery(OwnQuery(c)) THEN OwnQuery(c) ELSE Absent
         /\ call[c].op \in {"post", "put", "patch", "delete"} =>
              call[c].ky.body = objectToURLSearchParams(call[c].args.data)
         /\ call[c].op \in {"postMulti", "putMulti"} =>
              call[c].ky.body.t = "formdata"
         /\ (Done(c) /\ call[c].result.kind = "resolved") =>
              /\ call[c].result.value.status = call[c].response.status
              /\ call[c].result.value.body = call[c].response.json.v
         /\ (Done(c) /\ call[c].result.kind = "rejected"
                     /\ call[c].result.error.type = "APIError") =>
              /\ call[c].result.error.status = call[c].response.status
              /\ Message(c) = Utf8Decode(Flatten(call[c].emitted))

\* two calls with different headers, one draining its body while the other
\* has resolved
C7_Witness ==
  \E c, d \in CallIds :
    /\ c # d /\ Started(c) /\ Started(d)
    /\ call[c].ky.headers["X-Tag"] = Str("call")
    /\ call[d].ky.headers["X-Tag"] = Str("inst")
    /\ call[c].pc = "drain" /\ Len(call[c].emitted) = 1
    /\ Done(d) /\ call[d].result.kind = "resolved"

C7_WitnessBothDone ==
  \E c, d \in CallIds :
    /\ c # d /\ Started(c) /\ Started(d)
    /\ call[c].ky.headers["Authorization"] = Str("Bearer call")
    /\ call[d].ky.headers["Authorization"].t = "basic"
    /\ Done(c) /\ call[c].result.kind = "rejected"
    /\ call[c].result.error.type = "APIError"
    /\ Done(d) /\ call[d].result.kind = "resolved"

====
